---- MODULE Spec2Model ----
(***************************************************************************)
(* Workout tracker (src/app.py, src/create_admin.py).                      *)
(*                                                                         *)
(* The state is the SQLite store (schema, rows of users, sessions,         *)
(* workouts and workout_sets, and the AUTOINCREMENT counters), the wall    *)
(* clock read by datetime.now(), whether an app process is serving, and    *)
(* the last request with its response.  Every route handler is one action: *)
(* it reads the store, writes inside one transaction and commits or rolls  *)
(* back, exactly as the handler's try/except/finally does.  Where requests  *)
(* are served concurrently a handler is two steps, its SELECT and its       *)
(* write transaction, and inflight holds the requests between the two.      *)
(*                                                                         *)
(* Representation of SQL and Python values:                                *)
(*   NULL / None / a form key that is absent   <<>>                        *)
(*   a non-null value v of a nullable column   <<v>>        (Val(v))       *)
(*   a date string '%Y-%m-%d'                  <<y, m, d>>                 *)
(*   a time string '%H:%M:%S'                  <<h, m, s>>                 *)
(*   the text typed in a form field            a sequence of characters    *)
(*   a REAL                                    <<num, den>> (num/den)      *)
(* Zero-padded date and time strings compare as their field tuples do.     *)
(***************************************************************************)
EXTENDS Integers, Sequences, FiniteSets, Bags, TLC

VARIABLES db, now, booted, resp, inflight

vars == <<db, now, booted, resp, inflight>>

-----------------------------------------------------------------------------
(* Bounds of the model.                                                    *)

MaxUsers == 2

MaxSessions == 2

MaxWorkouts == 2

MaxPos == 2

MaxDay == 1

MaxLogged == 1

MaxInflight == 2

-----------------------------------------------------------------------------
(* Values.                                                                 *)

NULL == <<>>

Val(v) == <<v>>

Get(cell) == cell[1]

SecondsPerMinute == 60

SecondsPerHour == 3600

SecondsPerDay == 86400

\* Lexicographic order on the field tuples of two equally formatted strings.
RECURSIVE LexLess(_, _)
LexLess(a, b) ==
    IF a = <<>> \/ b = <<>> THEN a = <<>> /\ b /= <<>>
    ELSE IF Head(a) /= Head(b) THEN Head(a) < Head(b)
    ELSE LexLess(Tail(a), Tail(b))

-----------------------------------------------------------------------------
(* datetime: strftime, strptime and subtraction.                           *)

IsLeap(y) == y % 4 = 0 /\ (y % 100 /= 0 \/ y % 400 = 0)

DaysInMonth(y, m) ==
    IF m = 2 THEN (IF IsLeap(y) THEN 29 ELSE 28)
    ELSE IF m \in {4, 6, 9, 11} THEN 30 ELSE 31

DaysBeforeYear(y) ==
    (y - 1) * 365 + (y - 1) \div 4 - (y - 1) \div 100 + (y - 1) \div 400

RECURSIVE DaysBeforeMonth(_, _)
DaysBeforeMonth(y, m) ==
    IF m = 1 THEN 0 ELSE DaysBeforeMonth(y, m - 1) + DaysInMonth(y, m - 1)

\* Proleptic Gregorian ordinal of a date, as datetime computes it.
YmdToOrd(date) ==
    DaysBeforeYear(date[1]) + DaysBeforeMonth(date[1], date[2]) + date[3]

NextDate(date) ==
    IF date[3] < DaysInMonth(date[1], date[2]) THEN <<date[1], date[2], date[3] + 1>>
    ELSE IF date[2] < 12 THEN <<date[1], date[2] + 1, 1>>
    ELSE <<date[1] + 1, 1, 1>>

\* now.strftime('%Y-%m-%d') and now.strftime('%H:%M:%S') of a clock reading
\* [date, sec]: the date fields, and the second of the day split into fields.
StrfDate(t) == t.date

StrfTime(t) ==
    <<t.sec \div SecondsPerHour,
      (t.sec % SecondsPerHour) \div SecondsPerMinute,
      t.sec % SecondsPerMinute>>

\* datetime.strptime(f"{date} {time}", "%Y-%m-%d %H:%M:%S")
Strptime(date, time) ==
    [ord |-> YmdToOrd(date),
     sec |-> time[1] * SecondsPerHour + time[2] * SecondsPerMinute + time[3]]

\* (a - b).total_seconds()
TotalSeconds(a, b) == (a.ord - b.ord) * SecondsPerDay + (a.sec - b.sec)

\* seconds / 60 as a float: the quotient kept as the fraction seconds/60.
DurationMinutesIgnoringDate(session_date, start_time_str, end_date, end_time) ==
    <<TotalSeconds(Strptime(session_date, end_time),
                   Strptime(session_date, start_time_str)), SecondsPerMinute>>

DurationMinutes(session_date, start_time_str, end_date, end_time) ==
    <<TotalSeconds(Strptime(end_date, end_time),
                   Strptime(session_date, start_time_str)), SecondsPerMinute>>

-----------------------------------------------------------------------------
(* int() and float() of the text of a form field.                          *)

Digits == <<"0", "1", "2", "3", "4", "5", "6", "7", "8", "9">>

IsDigit(c) == \E i \in 1..10 : Digits[i] = c

DigitValue(c) == (CHOOSE i \in 1..10 : Digits[i] = c) - 1

RECURSIVE Strip(_)
Strip(s) ==
    IF s = <<>> THEN s
    ELSE IF Head(s) = " " THEN Strip(Tail(s))
    ELSE IF s[Len(s)] = " " THEN Strip(SubSeq(s, 1, Len(s) - 1))
    ELSE s

Unsigned(s) == IF s /= <<>> /\ Head(s) \in {"-", "+"} THEN Tail(s) ELSE s

Sign(s) == IF s /= <<>> /\ Head(s) = "-" THEN -1 ELSE 1

AllDigits(s) == \A i \in 1..Len(s) : IsDigit(s[i])

RECURSIVE Decimal(_)
Decimal(s) ==
    IF s = <<>> THEN 0 ELSE 10 * Decimal(SubSeq(s, 1, Len(s) - 1)) + DigitValue(s[Len(s)])

RECURSIVE Pow10(_)
Pow10(n) == IF n = 0 THEN 1 ELSE 10 * Pow10(n - 1)

\* int(text) raises ValueError unless text is an optionally signed digit string.
IntOk(text) ==
    LET u == Unsigned(Strip(text)) IN u /= <<>> /\ AllDigits(u)

IntOf(text) == Sign(Strip(text)) * Decimal(Unsigned(Strip(text)))

\* float(text): optionally signed digits with at most one point, and a digit.
DotAt(u) == IF \E i \in 1..Len(u) : u[i] = "." THEN CHOOSE i \in 1..Len(u) : u[i] = "." ELSE 0

FloatOk(text) ==
    LET u == Unsigned(Strip(text))
        d == DotAt(u)
        whole == IF d = 0 THEN u ELSE SubSeq(u, 1, d - 1)
        frac == IF d = 0 THEN <<>> ELSE SubSeq(u, d + 1, Len(u))
    IN  AllDigits(whole) /\ AllDigits(frac) /\ whole \o frac /= <<>>

FloatOf(text) ==
    LET u == Unsigned(Strip(text))
        d == DotAt(u)
        whole == IF d = 0 THEN u ELSE SubSeq(u, 1, d - 1)
        frac == IF d = 0 THEN <<>> ELSE SubSeq(u, d + 1, Len(u))
    IN  <<Sign(Strip(text)) * Decimal(whole \o frac), Pow10(Len(frac))>>

-----------------------------------------------------------------------------
(* The store.                                                              *)

TableNames == {"users", "workouts", "workouts_new", "sessions", "workout_sets"}

UsersColumns == {"id", "username", "email", "password_hash", "is_admin", "created_at"}

WorkoutsNewColumns == {"id", "date", "time", "muscle_group", "exercise"}

WorkoutsColumns == {"id", "user_id", "date", "time", "muscle_group", "exercise"}

SessionsColumns == {"id", "user_id", "date", "start_time", "end_time", "duration_minutes"}

WorkoutSetsColumns == {"id", "workout_id", "set_number", "reps", "weight_kg"}

LegacyColumns == {"sets", "reps", "weight_kg"}

\* A store file that does not exist yet: no table, no row.  In schema a table
\* that does not exist has no column.
EmptyStore ==
    [schema |-> [t \in TableNames |-> {}],
     users |-> {}, sessions |-> {}, workouts |-> {}, workout_sets |-> {},
     seq |-> [t \in TableNames |-> 0]]

\* get_db_connection never issues PRAGMA foreign_keys = ON, and SQLite's default
\* is OFF: the ON DELETE CASCADE clauses of the schema are not enforced.
ForeignKeys == FALSE

MaxOf(S) == IF S = {} THEN 0 ELSE CHOOSE x \in S : \A y \in S : y <= x

\* The rowid an INTEGER PRIMARY KEY AUTOINCREMENT column gives the next insert.
NextId(d, table, rows) ==
    (IF d.seq[table] > MaxOf({r.id : r \in rows})
     THEN d.seq[table] ELSE MaxOf({r.id : r \in rows})) + 1

\* SELECT ... FROM sessions WHERE user_id = ? AND end_time IS NULL
\* ORDER BY date DESC, start_time DESC LIMIT 1: the rows the query may return
\* (SQLite does not fix the order of rows that tie on the sort key).
OpenSessions(d, u) == {s \in d.sessions : s.user_id = Val(u) /\ s.end_time = NULL}

SessionKey(s) == s.date \o s.start_time

ActiveSession(d, u) ==
    {s \in OpenSessions(d, u) :
        \A o \in OpenSessions(d, u) : ~LexLess(SessionKey(s), SessionKey(o))}

\* load_user: the row of the caller, and request handlers run only for a
\* caller that still has one (login_required).
UserIds(d) == {r.id : r \in d.users}

UserRow(d, u) == CHOOSE r \in d.users : r.id = u

IsAdmin(d, u) == u \in UserIds(d) /\ UserRow(d, u).is_admin

-----------------------------------------------------------------------------
(* Requests and responses.                                                 *)

EmptyForm == [muscle_group |-> NULL, exercise |-> NULL, sets |-> <<>>]

NoResponse ==
    [op |-> "none", user |-> 0, target |-> 0, flash |-> "", redirect |-> "",
     form |-> EmptyForm, header |-> <<>>, rows |-> <<>>, src |-> <<>>]

Response(op, u, flash, redirect) ==
    [NoResponse EXCEPT !.op = op, !.user = u, !.flash = flash, !.redirect = redirect]

-----------------------------------------------------------------------------
(* start_session and end_session.                                          *)

\* INSERT INTO sessions (user_id, date, start_time): end_time and
\* duration_minutes take their default, NULL.
InsertSession(d, u, t) ==
    LET id == NextId(d, "sessions", d.sessions) IN
    [d EXCEPT !.sessions = @ \cup {[id |-> id, user_id |-> Val(u), date |-> StrfDate(t),
                                    start_time |-> StrfTime(t), end_time |-> NULL,
                                    duration_minutes |-> NULL]},
              !.seq["sessions"] = id]

start_session_unchecked(d, u, t) ==
    [db |-> InsertSession(d, u, t),
     resp |-> Response("start_session", u, "Session started!", "index")]

start_session_restarting(d, u, t) ==
    IF ActiveSession(d, u) /= {}
    THEN [db |-> [d EXCEPT !.sessions = {s \in @ : s \notin ActiveSession(d, u)}],
          resp |-> Response("start_session", u, "Session already active.", "index")]
    ELSE start_session_unchecked(d, u, t)

start_session(d, u, t) ==
    IF ActiveSession(d, u) /= {}
    THEN [db |-> d, resp |-> Response("start_session", u, "Session already active.", "index")]
    ELSE [db |-> InsertSession(d, u, t),
          resp |-> Response("start_session", u, "Session started!", "index")]

\* The write of start_session, run by a request whose SELECT returned no row:
\* the INSERT and the commit.
start_session_insert_rechecking(d, u, t) == start_session(d, u, t)

start_session_insert(d, u, t) ==
    [db |-> InsertSession(d, u, t),
     resp |-> Response("start_session", u, "Session started!", "index")]

UpdateSessionEveryOpen(d, session_id, u, end_time, duration) ==
    [d EXCEPT !.sessions =
        {IF s.end_time = NULL
         THEN [s EXCEPT !.end_time = Val(end_time), !.duration_minutes = Val(duration)]
         ELSE s : s \in @}]

UpdateSessionEndTimeOnly(d, session_id, u, end_time, duration) ==
    [d EXCEPT !.sessions =
        {IF s.id = session_id /\ s.user_id = Val(u)
         THEN [s EXCEPT !.end_time = Val(end_time)]
         ELSE s : s \in @}]

\* UPDATE sessions SET end_time = ?, duration_minutes = ? WHERE id = ? AND user_id = ?
UpdateSession(d, session_id, u, end_time, duration) ==
    [d EXCEPT !.sessions =
        {IF s.id = session_id /\ s.user_id = Val(u)
         THEN [s EXCEPT !.end_time = Val(end_time), !.duration_minutes = Val(duration)]
         ELSE s : s \in @}]

end_session_on(d, u, t, active_session) ==
    [db |-> UpdateSession(d, active_session.id, u, StrfTime(t),
                          DurationMinutes(active_session.date, active_session.start_time,
                                          StrfDate(t), StrfTime(t))),
     resp |-> Response("end_session", u, "Session ended!", "index")]

end_session_none(d, u) == [db |-> d, resp |-> Response("end_session", u, "", "index")]

-----------------------------------------------------------------------------
(* submit.                                                                 *)

\* conn.rollback(): the store as it was when the transaction began.
RollbackKeepingWrites(before, txn) == txn

Rollback(before, txn) == before

\* 'set_<n>_reps' / 'set_<n>_weight' of request.form: NULL when the key is absent.
RepsField(form, n) == IF n \in 1..Len(form.sets) THEN form.sets[n].reps ELSE NULL

WeightField(form, n) == IF n \in 1..Len(form.sets) THEN form.sets[n].weight ELSE NULL

InsertSetRenumbered(d, workout_id, set_number, reps, weight_kg) ==
    LET id == NextId(d, "workout_sets", d.workout_sets) IN
    [d EXCEPT !.workout_sets = @ \cup
                {[id |-> id, workout_id |-> workout_id,
                  set_number |-> Cardinality({r \in d.workout_sets :
                                                r.workout_id = workout_id}) + 1,
                  reps |-> reps, weight_kg |-> weight_kg]},
              !.seq["workout_sets"] = id]

\* INSERT INTO workout_sets (workout_id, set_number, reps, weight_kg)
InsertSet(d, workout_id, set_number, reps, weight_kg) ==
    LET id == NextId(d, "workout_sets", d.workout_sets) IN
    [d EXCEPT !.workout_sets = @ \cup {[id |-> id, workout_id |-> workout_id,
                                        set_number |-> set_number, reps |-> reps,
                                        weight_kg |-> weight_kg]},
              !.seq["workout_sets"] = id]

\* The while loop over set_number: [raised, db], raised when int() or float()
\* rejects a field, db the transaction's store when the loop stopped.
RECURSIVE SubmitSets(_, _, _, _)
SubmitSets(txn, form, workout_id, set_number) ==
    IF RepsField(form, set_number) = NULL \/ WeightField(form, set_number) = NULL
    THEN [raised |-> FALSE, db |-> txn]
    ELSE IF ~IntOk(Get(RepsField(form, set_number)))
    THEN [raised |-> TRUE, db |-> txn]
    ELSE IF ~FloatOk(Get(WeightField(form, set_number)))
    THEN [raised |-> TRUE, db |-> txn]
    ELSE LET reps == IntOf(Get(RepsField(form, set_number)))
             weight_kg == FloatOf(Get(WeightField(form, set_number)))
         IN  SubmitSets(IF reps > 0
                        THEN InsertSet(txn, workout_id, set_number, reps, weight_kg)
                        ELSE txn,
                        form, workout_id, set_number + 1)

\* INSERT INTO workouts (user_id, date, time, muscle_group, exercise, session_id)
InsertWorkout(d, u, t, form, session_id) ==
    LET id == NextId(d, "workouts", d.workouts) IN
    [d EXCEPT !.workouts = @ \cup {[id |-> id, user_id |-> Val(u), date |-> StrfDate(t),
                                    time |-> StrfTime(t),
                                    muscle_group |-> Get(form.muscle_group),
                                    exercise |-> Get(form.exercise),
                                    session_id |-> Val(session_id),
                                    sets |-> NULL, reps |-> NULL, weight_kg |-> NULL]},
              !.seq["workouts"] = id]

SubmitError(u, form) ==
    [Response("submit", u, "Error logging workout.", "index") EXCEPT !.form = form]

submit_on(d, u, t, form, active_session) ==
    \* muscle_group and exercise are NOT NULL: a missing form key fails the insert
    IF form.muscle_group = NULL \/ form.exercise = NULL
    THEN [db |-> Rollback(d, d), resp |-> SubmitError(u, form)]
    ELSE LET txn == InsertWorkout(d, u, t, form, active_session.id)
             loop == SubmitSets(txn, form, txn.seq["workouts"], 1)
         IN  IF loop.raised
             THEN [db |-> Rollback(d, loop.db), resp |-> SubmitError(u, form)]
             ELSE [db |-> loop.db,
                   resp |-> [Response("submit", u, "Workout logged successfully!",
                                      "index?submitted=1") EXCEPT !.form = form]]

submit_unguarded(d, u, form) ==
    [db |-> [d EXCEPT !.workouts = @ \cup {[id |-> NextId(d, "workouts", d.workouts),
                user_id |-> Val(u), date |-> <<2023, 12, 31>>, time |-> <<0, 1, 1>>,
                muscle_group |-> "Chest", exercise |-> "Bench Press", session_id |-> NULL,
                sets |-> NULL, reps |-> NULL, weight_kg |-> NULL]}],
     resp |-> [Response("submit", u, "Workout logged successfully!", "index?submitted=1")
                 EXCEPT !.form = form]]

submit_none(d, u, form) ==
    [db |-> d, resp |-> [Response("submit", u, "", "index?error=no_session") EXCEPT !.form = form]]

-----------------------------------------------------------------------------
(* download_csv.                                                           *)

WorkoutKey(w) == w.date \o w.time

\* The sequences a SELECT ... ORDER BY date DESC, time DESC may return for rows.
RECURSIVE OrderedDesc(_)
OrderedDesc(rows) ==
    IF rows = {} THEN {<<>>}
    ELSE UNION {{<<w>> \o rest : rest \in OrderedDesc(rows \ {w})} :
                w \in {x \in rows : \A y \in rows : ~LexLess(WorkoutKey(x), WorkoutKey(y))}}

\* SELECT set_number, reps, weight_kg FROM workout_sets WHERE workout_id = ?
\* ORDER BY set_number (submit gives the sets of a workout distinct numbers).
RECURSIVE OrderedBySetNumber(_)
OrderedBySetNumber(rows) ==
    IF rows = {} THEN <<>>
    ELSE LET first == CHOOSE x \in rows : \A y \in rows : x.set_number <= y.set_number
         IN  <<first>> \o OrderedBySetNumber(rows \ {first})

CsvScopeAll(d, u) == d.workouts

CsvScope(d, u) ==
    IF IsAdmin(d, u) THEN d.workouts ELSE {w \in d.workouts : w.user_id = Val(u)}

CsvHeader(d, u) ==
    IF IsAdmin(d, u)
    THEN <<"User", "Date", "Time", "Muscle Group", "Exercise", "Set Number", "Reps", "Weight (kg)">>
    ELSE <<"Date", "Time", "Muscle Group", "Exercise", "Set Number", "Reps", "Weight (kg)">>

\* The User cell: None is written as '', a user_id without a users row as 'Unknown'.
CsvUsername(d, w) ==
    IF w.user_id = NULL THEN ""
    ELSE IF Get(w.user_id) \in UserIds(d) THEN UserRow(d, Get(w.user_id)).username
    ELSE "Unknown"

CsvRow(d, u, w, cells) ==
    (IF IsAdmin(d, u) THEN <<CsvUsername(d, w)>> ELSE <<>>)
        \o <<w.date, w.time, w.muscle_group, w.exercise>> \o cells

EmptyCell == <<>>

WorkoutRowsSetsOnly(d, u, w) ==
    LET sets == OrderedBySetNumber({r \in d.workout_sets : r.workout_id = w.id}) IN
    [i \in 1..Len(sets) |->
        CsvRow(d, u, w, <<Val(sets[i].set_number), Val(sets[i].reps), Val(sets[i].weight_kg)>>)]

\* The rows written for one workout: one per set, or one with empty set cells.
WorkoutRows(d, u, w) ==
    LET sets == OrderedBySetNumber({r \in d.workout_sets : r.workout_id = w.id}) IN
    IF sets /= <<>>
    THEN [i \in 1..Len(sets) |->
            CsvRow(d, u, w, <<Val(sets[i].set_number), Val(sets[i].reps), Val(sets[i].weight_kg)>>)]
    ELSE <<CsvRow(d, u, w, <<EmptyCell, EmptyCell, EmptyCell>>)>>

RECURSIVE CsvRows(_, _, _)
CsvRows(d, u, workouts) ==
    IF workouts = <<>> THEN <<>>
    ELSE WorkoutRows(d, u, Head(workouts)) \o CsvRows(d, u, Tail(workouts))

\* Ghost: for each data row, the id of the workout it was written for.
RECURSIVE CsvSources(_, _, _)
CsvSources(d, u, workouts) ==
    IF workouts = <<>> THEN <<>>
    ELSE [i \in 1..Len(WorkoutRows(d, u, Head(workouts))) |-> Head(workouts).id]
            \o CsvSources(d, u, Tail(workouts))

download_csv(d, u, workouts) ==
    [db |-> d,
     resp |-> [Response("download_csv", u, "", "") EXCEPT
                 !.header = CsvHeader(d, u),
                 !.rows = CsvRows(d, u, workouts),
                 !.src = CsvSources(d, u, workouts)]]

-----------------------------------------------------------------------------
(* admin_delete_user.                                                      *)

\* DELETE FROM users WHERE id = ?, with the ON DELETE CASCADE of sessions,
\* workouts and workout_sets applied only when foreign keys are enforced.
DeleteUserRow(d, user_id, enforced) ==
    LET gone == {w.id : w \in {x \in d.workouts : x.user_id = Val(user_id)}} IN
    IF enforced
    THEN [d EXCEPT !.users = {r \in @ : r.id /= user_id},
                   !.sessions = {r \in @ : r.user_id /= Val(user_id)},
                   !.workouts = {r \in @ : r.user_id /= Val(user_id)},
                   !.workout_sets = {r \in @ : r.workout_id \notin gone}]
    ELSE [d EXCEPT !.users = {r \in @ : r.id /= user_id}]

admin_delete_user(d, u, user_id) ==
    LET answer(flash) ==
            [Response("admin_delete_user", u, flash, "admin_dashboard") EXCEPT !.target = user_id]
    IN  IF user_id = u
        THEN [db |-> d, resp |-> answer("You cannot delete your own account.")]
        ELSE IF user_id \notin UserIds(d)
        THEN [db |-> d, resp |-> answer("User not found.")]
        ELSE [db |-> DeleteUserRow(d, user_id, ForeignKeys),
              resp |-> answer("User has been deleted.")]

-----------------------------------------------------------------------------
(* register and create_admin.                                              *)

AdminEmail == "admin@workouttracker.com"

\* INSERT INTO users (username, email, password_hash, is_admin, created_at).
\* password_hash and created_at are read by no modelled handler and are left out.
InsertUser(d, username, email, is_admin) ==
    LET id == NextId(d, "users", d.users) IN
    [d EXCEPT !.users = @ \cup {[id |-> id, username |-> username, email |-> email,
                                 is_admin |-> is_admin]},
              !.seq["users"] = id]

register(d, username, email) ==
    IF \E r \in d.users : r.username = username \/ r.email = email
    THEN [db |-> d, resp |-> Response("register", 0, "Username or email already exists.", "")]
    ELSE [db |-> InsertUser(d, username, email, FALSE),
          resp |-> Response("register", 0, "Registration successful! Please log in.", "login")]

\* UPDATE workouts SET user_id = ? WHERE user_id IS NULL, then the same on sessions.
AssignOwnerless(d, admin_id) ==
    [d EXCEPT !.workouts = {IF w.user_id = NULL THEN [w EXCEPT !.user_id = Val(admin_id)] ELSE w
                            : w \in @},
              !.sessions = {IF x.user_id = NULL THEN [x EXCEPT !.user_id = Val(admin_id)] ELSE x
                            : x \in @}]

HasUserIdColumns(d) ==
    "user_id" \in d.schema["workouts"] /\ "user_id" \in d.schema["sessions"]

create_admin(d, password_ok) ==
    LET answer(text) == Response("create_admin", 0, text, "") IN
    IF d.schema["users"] = {}
    THEN [db |-> d, resp |-> answer("Database error")]
    ELSE IF \E r \in d.users : r.username = "admin"
    THEN [db |-> d, resp |-> answer("Admin user already exists!")]
    ELSE IF ~password_ok
    THEN [db |-> d, resp |-> answer("Password must be at least 6 characters long.")]
    ELSE IF \E r \in d.users : r.email = AdminEmail
    THEN [db |-> d, resp |-> answer("Error")]
    ELSE LET created == InsertUser(d, "admin", AdminEmail, TRUE) IN
         IF ~HasUserIdColumns(created)
         THEN [db |-> created, resp |-> answer("Database error")]
         ELSE [db |-> AssignOwnerless(created, created.seq["users"]),
               resp |-> answer("Admin user created successfully!")]

-----------------------------------------------------------------------------
(* init_db and migrate_existing_data_to_admin.                             *)

CreateTableIfNotExists(d, table, columns) ==
    IF d.schema[table] = {} THEN [d EXCEPT !.schema[table] = columns] ELSE d

\* PRAGMA table_info, then ALTER TABLE ... ADD COLUMN when the column is absent.
AddColumnIfAbsent(d, table, column) ==
    IF column \in d.schema[table] THEN d ELSE [d EXCEPT !.schema[table] = @ \cup {column}]

\* 'sets' in columns or 'reps' in columns or 'weight_kg' in columns
HasOldSchemaAlways(d) == d.schema["workouts"] /= {}

HasOldSchema(d) == d.schema["workouts"] \cap LegacyColumns /= {}

MigrateOldSchemaWithoutCopy(d) ==
    [d EXCEPT !.workouts = {},
              !.schema["workouts"] = d.schema["workouts_new"],
              !.schema["workouts_new"] = {},
              !.seq["workouts"] = 0,
              !.seq["workouts_new"] = 0]

\* INSERT INTO workouts_new SELECT id, date, time, muscle_group, exercise FROM
\* workouts; DROP TABLE workouts; ALTER TABLE workouts_new RENAME TO workouts.
\* Only the five copied columns keep their values.
MigrateOldSchema(d) ==
    [d EXCEPT !.workouts = {[w EXCEPT !.user_id = NULL, !.session_id = NULL, !.sets = NULL,
                                      !.reps = NULL, !.weight_kg = NULL] : w \in @},
              !.schema["workouts"] = d.schema["workouts_new"],
              !.schema["workouts_new"] = {},
              !.seq["workouts"] = MaxOf({w.id : w \in d.workouts}),
              !.seq["workouts_new"] = 0]

InitDbTail(d) ==
    LET a == CreateTableIfNotExists(d, "workouts", WorkoutsColumns)
        b == AddColumnIfAbsent(a, "workouts", "user_id")
        c == CreateTableIfNotExists(b, "sessions", SessionsColumns)
        e == AddColumnIfAbsent(c, "sessions", "user_id")
        f == AddColumnIfAbsent(e, "workouts", "session_id")
    IN  CreateTableIfNotExists(f, "workout_sets", WorkoutSetsColumns)

\* [raised, db]: raised when the INSERT ... SELECT names a column the old table
\* lacks; the CREATE TABLE statements before it ran outside any transaction
\* and stay, the rest of the run is never committed.
init_db(d) ==
    LET a == CreateTableIfNotExists(d, "users", UsersColumns) IN
    IF a.schema["workouts"] /= {} /\ HasOldSchema(a)
    THEN LET b == CreateTableIfNotExists(a, "workouts_new", WorkoutsNewColumns) IN
         IF ~(WorkoutsNewColumns \subseteq b.schema["workouts"])
         THEN [raised |-> TRUE, db |-> b]
         ELSE [raised |-> FALSE, db |-> InitDbTail(MigrateOldSchema(b))]
    ELSE [raised |-> FALSE, db |-> InitDbTail(a)]

migrate_existing_data_to_admin(d) ==
    IF \E r \in d.users : r.username = "admin"
    THEN AssignOwnerless(d, (CHOOSE r \in d.users : r.username = "admin").id)
    ELSE d

-----------------------------------------------------------------------------
(* Inputs.                                                                 *)

\* The clock runs over the days from 2023-12-31 on, at two seconds of each day.
RECURSIVE DateAfter(_)
DateAfter(n) == IF n = 0 THEN <<2023, 12, 31>> ELSE NextDate(DateAfter(n - 1))

ClockDates == [i \in 1..(MaxDay + 1) |-> DateAfter(i - 1)]

SecondSamples == {61, 86399}

ClockInstants == {[date |-> ClockDates[i], sec |-> x] : i \in 1..(MaxDay + 1), x \in SecondSamples}

ClockKey(t) == t.date \o <<t.sec>>

Registrations ==
    {[username |-> "alice", email |-> "alice@example.com"],
     [username |-> "bob", email |-> "bob@example.com"]}

SetInput(reps, weight) == [reps |-> reps, weight |-> weight]

\* reps 5, 0, 3 with weights 50, 0, 40; no set at all; a second set whose reps
\* field is not a number.
BasicForms ==
    {[muscle_group |-> Val("Chest"), exercise |-> Val("Bench Press"),
      sets |-> <<SetInput(Val(<<"5">>), Val(<<"5", "0">>)),
                 SetInput(Val(<<"0">>), Val(<<"0">>)),
                 SetInput(Val(<<"3">>), Val(<<"4", "0">>))>>],
     [muscle_group |-> Val("Legs"), exercise |-> Val("Plank"), sets |-> <<>>],
     [muscle_group |-> Val("Legs"), exercise |-> Val("Squats"),
      sets |-> <<SetInput(Val(<<"8">>), Val(<<"2", ".", "5">>)),
                 SetInput(Val(<<"x">>), Val(<<"1", "0">>))>>]}

\* What a user may type into one set row of the form: reps 5 / 50 kg, reps 0,
\* reps 3 / -2.5 kg, reps that are no number, and a row that sends its weight
\* only.
SetInputs ==
    {SetInput(Val(<<"5">>), Val(<<"5", "0">>)),
     SetInput(Val(<<"0">>), Val(<<"0">>)),
     SetInput(Val(<<" ", "3">>), Val(<<"-", "2", ".", "5">>)),
     SetInput(Val(<<"x">>), Val(<<"4", "0">>)),
     SetInput(NULL, Val(<<"4", "0">>))}

\* Every form of up to MaxPos set rows, a form without its exercise key, a form
\* whose second weight is left empty, and the three basic forms.
Forms ==
    {[muscle_group |-> Val("Back"), exercise |-> Val("Squats"), sets |-> sets] :
        sets \in UNION {[1..n -> SetInputs] : n \in 0..MaxPos}}
    \cup {[muscle_group |-> Val("Back"), exercise |-> NULL,
           sets |-> <<SetInput(Val(<<"5">>), Val(<<"5", "0">>))>>]}
    \cup {[muscle_group |-> Val("Back"), exercise |-> Val("Squats"),
           sets |-> <<SetInput(Val(<<"5">>), Val(<<"5", "0">>)),
                      SetInput(Val(<<"2">>), Val(<<>>))>>]}
    \cup BasicForms

-----------------------------------------------------------------------------
(* Actions.                                                                *)

Handled(result) == db' = result.db /\ resp' = result.resp

\* python app.py: init_db(), migrate_existing_data_to_admin(), app.run().
\* A failure of init_db ends the process before it serves.  Ghost: the
\* response tells whether init_db rebuilt the workouts table.
Boot ==
    LET r == init_db(db) IN
    /\ db' = IF r.raised THEN r.db ELSE migrate_existing_data_to_admin(r.db)
    /\ booted' = ~r.raised
    /\ resp' = Response("boot", 0,
                        IF r.raised THEN "fatal"
                        ELSE IF HasOldSchema(db) THEN "migrated" ELSE "", "")
    /\ UNCHANGED <<now, inflight>>

CreateAdmin ==
    /\ db.seq["users"] < MaxUsers
    /\ \E password_ok \in BOOLEAN : Handled(create_admin(db, password_ok))
    /\ UNCHANGED <<now, booted, inflight>>

Register(inputs) ==
    /\ booted
    /\ db.seq["users"] < MaxUsers
    /\ \E i \in inputs : Handled(register(db, i.username, i.email))
    /\ UNCHANGED <<now, booted, inflight>>

StartSession ==
    /\ booted
    /\ \E u \in UserIds(db) :
        /\ ActiveSession(db, u) /= {} \/ db.seq["sessions"] < MaxSessions
        /\ Handled(start_session(db, u, now))
    /\ UNCHANGED <<now, booted, inflight>>

EndSession ==
    /\ booted
    /\ \E u \in UserIds(db) :
        \/ /\ ActiveSession(db, u) = {}
           /\ Handled(end_session_none(db, u))
        \/ \E active_session \in ActiveSession(db, u) :
              Handled(end_session_on(db, u, now, active_session))
    /\ UNCHANGED <<now, booted, inflight>>

Submit(forms, limit) ==
    /\ booted
    /\ \E u \in UserIds(db), form \in forms :
        \/ /\ ActiveSession(db, u) = {}
           /\ Handled(submit_none(db, u, form))
        \/ /\ db.seq["workouts"] < limit
           /\ \E active_session \in ActiveSession(db, u) :
                Handled(submit_on(db, u, now, form, active_session))
    /\ UNCHANGED <<now, booted, inflight>>

DownloadCsv ==
    /\ booted
    /\ \E u \in UserIds(db) : \E workouts \in OrderedDesc(CsvScope(db, u)) :
        Handled(download_csv(db, u, workouts))
    /\ UNCHANGED <<now, booted, inflight>>

AdminDeleteUser ==
    /\ booted
    /\ \E u \in UserIds(db), user_id \in 1..MaxUsers :
        /\ IsAdmin(db, u)
        /\ Handled(admin_delete_user(db, u, user_id))
    /\ UNCHANGED <<now, booted, inflight>>

Tick(instants) ==
    /\ \E t \in instants : LexLess(ClockKey(now), ClockKey(t)) /\ now' = t
    /\ UNCHANGED <<db, booted, resp, inflight>>

-----------------------------------------------------------------------------------------------------------------------------------------------------
(* Spec: sessions and workouts of registered users on a new store file.    *)

Init ==
    /\ db = EmptyStore
    /\ now = [date |-> ClockDates[1], sec |-> 61]
    /\ booted = FALSE
    /\ resp = NoResponse
    /\ inflight = EmptyBag

Next ==
    \/ Boot
    \/ Register(Registrations)
    \/ StartSession
    \/ EndSession
    \/ Submit(BasicForms, MaxWorkouts)

Spec == Init /\ [][Next]_vars

\* SpecAdmin: the admin account, the CSV export and the deletion of users.
Alice == {[username |-> "alice", email |-> "alice@example.com"]}

NextAdmin ==
    \/ Boot
    \/ CreateAdmin
    \/ Register(Alice)
    \/ StartSession
    \/ Submit(BasicForms, MaxWorkouts)
    \/ DownloadCsv
    \/ AdminDeleteUser

SpecAdmin == Init /\ [][NextAdmin]_vars

\* SpecClock: one user starting and ending sessions while the clock advances.
NextClock ==
    \/ Boot
    \/ Register(Alice)
    \/ StartSession
    \/ EndSession
    \/ Tick(ClockInstants)

SpecClock == Init /\ [][NextClock]_vars

\* SpecSubmit: one user with an open session submitting any form.
NextSubmit ==
    \/ Boot
    \/ Register(Alice)
    \/ StartSession
    \/ Submit(Forms, MaxLogged)

SpecSubmit == Init /\ [][NextSubmit]_vars

\* SpecLegacy: the application started on a store file left by an earlier
\* version: workouts with or without the flat sets / reps / weight_kg columns,
\* user_id and session_id, sessions with or without user_id, any of the tables
\* missing, and rows that no user owns.
CurrentShape ==
    [t \in TableNames |->
        CASE t = "users" -> UsersColumns
          [] t = "workouts" -> WorkoutsColumns \cup {"session_id"}
          [] t = "sessions" -> SessionsColumns
          [] t = "workout_sets" -> WorkoutSetsColumns
          [] OTHER -> {}]

LegacyShapes ==
    {[t \in TableNames |->
        CASE t = "users" -> u
          [] t = "workouts" -> w
          [] t = "sessions" -> x
          [] t = "workout_sets" -> y
          [] OTHER -> {}] :
        u \in {{}, UsersColumns},
        w \in {{}} \cup {WorkoutsNewColumns \cup l \cup e :
                            l \in SUBSET LegacyColumns, e \in SUBSET {"user_id", "session_id"}},
        x \in {{}, SessionsColumns \ {"user_id"}, SessionsColumns},
        y \in {{}, WorkoutSetsColumns}}

LegacyWorkouts ==
    {[id |-> 1, user_id |-> NULL, date |-> <<2023, 1, 1>>, time |-> <<10, 0, 0>>,
      muscle_group |-> "Chest", exercise |-> "Bench Press", session_id |-> Val(1),
      sets |-> Val(3), reps |-> Val(10), weight_kg |-> Val(<<50, 1>>)],
     [id |-> 2, user_id |-> NULL, date |-> <<2023, 1, 2>>, time |-> <<18, 30, 0>>,
      muscle_group |-> "Legs", exercise |-> "Squats", session_id |-> Val(2),
      sets |-> Val(4), reps |-> Val(8), weight_kg |-> Val(<<80, 1>>)]}

LegacySessions ==
    {[id |-> 1, user_id |-> NULL, date |-> <<2023, 1, 1>>, start_time |-> <<9, 30, 0>>,
      end_time |-> Val(<<10, 30, 0>>), duration_minutes |-> Val(<<3600, 60>>)],
     [id |-> 2, user_id |-> NULL, date |-> <<2023, 1, 2>>, start_time |-> <<18, 0, 0>>,
      end_time |-> NULL, duration_minutes |-> NULL]}

\* A store whose only session is still open.
LegacyOpenSession ==
    [id |-> 1, user_id |-> NULL, date |-> <<2023, 1, 1>>, start_time |-> <<9, 30, 0>>,
     end_time |-> NULL, duration_minutes |-> NULL]

LegacySets ==
    {[id |-> 1, workout_id |-> 1, set_number |-> 1, reps |-> 10, weight_kg |-> <<50, 1>>]}

\* A row holds a value only in the columns its table has.
Masked(w, columns) ==
    [w EXCEPT !.session_id = IF "session_id" \in columns THEN @ ELSE NULL,
              !.sets = IF "sets" \in columns THEN @ ELSE NULL,
              !.reps = IF "reps" \in columns THEN @ ELSE NULL,
              !.weight_kg = IF "weight_kg" \in columns THEN @ ELSE NULL]

LegacyStores ==
    {[schema |-> shape,
      users |-> {},
      sessions |-> x,
      workouts |-> {Masked(r, shape["workouts"]) : r \in w},
      workout_sets |-> y,
      seq |-> [t \in TableNames |->
                CASE t = "workouts" -> MaxOf({r.id : r \in w})
                  [] t = "sessions" -> MaxOf({r.id : r \in x})
                  [] t = "workout_sets" -> MaxOf({r.id : r \in y})
                  [] OTHER -> 0]] :
        shape \in LegacyShapes,
        w \in {{r \in LegacyWorkouts : r.id <= n} : n \in 0..2},
        x \in {{r \in LegacySessions : r.id <= n} : n \in 0..2} \cup {{LegacyOpenSession}},
        y \in {{}, LegacySets}}

InitLegacy ==
    /\ db \in {d \in LegacyStores :
                /\ d.schema["workouts"] = {} => d.workouts = {}
                /\ d.schema["sessions"] = {} => d.sessions = {}
                /\ d.schema["workout_sets"] = {} => d.workout_sets = {}}
    /\ now = [date |-> ClockDates[1], sec |-> 61]
    /\ booted = FALSE
    /\ resp = NoResponse
    /\ inflight = EmptyBag

NextLegacy ==
    \/ Boot
    \/ CreateAdmin
    \/ Register(Alice)
    \/ StartSession
    \/ Submit(BasicForms, MaxWorkouts)

SpecLegacy == InitLegacy /\ [][NextLegacy]_vars

\* SpecOwner: an earlier version's store, on which somebody registers the name
\* admin (register refuses no name) or create_admin is run.
AdminName == {[username |-> "admin", email |-> "root@example.com"]}

NextOwner ==
    \/ Boot
    \/ CreateAdmin
    \/ Register(AdminName)
    \/ StartSession
    \/ EndSession

SpecOwner == InitLegacy /\ [][NextOwner]_vars

\* SpecRace: requests of one user served concurrently (app.run serves each
\* request on its own thread and connection).  A handler's SELECT and its
\* write transaction are separate steps; SQLite serialises the writers, so a
\* write transaction up to its commit is one step.
Pending(op, u, active_session, form) ==
    [op |-> op, user |-> u, active_session |-> active_session, form |-> form]

PendingOf(op) == {r \in BagToSet(inflight) : r.op = op}

PendingCount(op) == BagCardinality([r \in PendingOf(op) |-> inflight[r]])

Accept(request) ==
    /\ BagCardinality(inflight) < MaxInflight
    /\ inflight' = inflight (+) SetToBag({request})
    /\ UNCHANGED <<db, resp>>

Complete(request, result) ==
    /\ Handled(result)
    /\ inflight' = inflight (-) SetToBag({request})

StartSessionSelect ==
    /\ booted
    /\ \E u \in UserIds(db) :
        IF ActiveSession(db, u) /= {}
        THEN Handled(start_session(db, u, now)) /\ UNCHANGED inflight
        ELSE /\ db.seq["sessions"] + PendingCount("start_session") < MaxSessions
             /\ Accept(Pending("start_session", u, NULL, EmptyForm))
    /\ UNCHANGED <<now, booted>>

StartSessionWrite ==
    /\ \E r \in PendingOf("start_session") :
        Complete(r, start_session_insert(db, r.user, now))
    /\ UNCHANGED <<now, booted>>

EndSessionSelect ==
    /\ booted
    /\ \E u \in UserIds(db) :
        \/ /\ ActiveSession(db, u) = {}
           /\ Handled(end_session_none(db, u))
           /\ UNCHANGED inflight
        \/ \E active_session \in ActiveSession(db, u) :
              Accept(Pending("end_session", u, Val(active_session), EmptyForm))
    /\ UNCHANGED <<now, booted>>

EndSessionWrite ==
    /\ \E r \in PendingOf("end_session") :
        Complete(r, end_session_on(db, r.user, now, Get(r.active_session)))
    /\ UNCHANGED <<now, booted>>

SubmitSelect(forms, limit) ==
    /\ booted
    /\ \E u \in UserIds(db), form \in forms :
        \/ /\ ActiveSession(db, u) = {}
           /\ Handled(submit_none(db, u, form))
           /\ UNCHANGED inflight
        \/ /\ db.seq["workouts"] + PendingCount("submit") < limit
           /\ \E active_session \in ActiveSession(db, u) :
                Accept(Pending("submit", u, Val(active_session), form))
    /\ UNCHANGED <<now, booted>>

SubmitWrite ==
    /\ \E r \in PendingOf("submit") :
        Complete(r, submit_on(db, r.user, now, r.form, Get(r.active_session)))
    /\ UNCHANGED <<now, booted>>

RaceInstants == {t \in ClockInstants : t.date = ClockDates[1]}

RaceForms == {form \in BasicForms : Len(form.sets) = 3}

NextRace ==
    \/ Boot
    \/ Register(Alice)
    \/ StartSessionSelect
    \/ StartSessionWrite
    \/ EndSessionSelect
    \/ EndSessionWrite
    \/ SubmitSelect(RaceForms, MaxLogged)
    \/ SubmitWrite
    \/ Tick(RaceInstants)

SpecRace == Init /\ [][NextRace]_vars

-----------------------------------------------------------------------------
(* Properties.                                                             *)

\* The step was made by the handler of op (every handler writes its response).
HandledStep(op) == resp'.op = op /\ <<db, resp>>' /= <<db, resp>>

SessionOwners == UserIds(db) \cup {Get(s.user_id) : s \in {x \in db.sessions : x.user_id /= NULL}}

\* C1: after any sequence of start_session, end_session and submit requests
\* handled one after the other, every user has at most one session whose
\* end_time is NULL.
C1_OneOpenSessionPerUser ==
    \A u \in SessionOwners : Cardinality(OpenSessions(db, u)) <= 1

C1_Witness ==
    /\ resp.op = "start_session" /\ resp.flash = "Session already active."
    /\ \E s \in db.sessions : s.user_id = Val(resp.user) /\ s.end_time /= NULL

\* C3: submit by a user without an open session leaves the store unchanged and
\* redirects to the index page with error=no_session.
C3_SubmitWithoutSession ==
    [][HandledStep("submit") /\ OpenSessions(db, resp'.user) = {}
        => db' = db /\ resp'.redirect = "index?error=no_session"]_vars

C3_Witness ==
    /\ resp.op = "submit" /\ resp.redirect = "index?error=no_session"
    /\ resp.form.sets /= <<>>
    /\ \E s \in db.sessions : s.user_id = Val(resp.user) /\ s.end_time /= NULL
    /\ db.workouts /= {}

\* C7: start_session by a user who has an open session creates no session and
\* changes no row of any table.
C7_StartIsNoOpWhenOpen ==
    [][HandledStep("start_session") /\ OpenSessions(db, resp'.user) /= {} => db' = db]_vars

C7_Witness ==
    /\ resp.op = "start_session" /\ resp.flash = "Session already active."
    /\ db.workout_sets /= {}
    /\ Cardinality(db.sessions) >= 2

\* C2: when admin_delete_user succeeds for a user, no session, workout or
\* workout_set row owned by that user remains in the store.
C2_DeleteCascades ==
    resp.op = "admin_delete_user" /\ resp.flash = "User has been deleted."
        => /\ \A s \in db.sessions : s.user_id /= Val(resp.target)
           /\ \A w \in db.workouts : w.user_id /= Val(resp.target)
           /\ \A r \in db.workout_sets :
                \A w \in db.workouts : w.id = r.workout_id => w.user_id /= Val(resp.target)

\* C6: end_session on a session started at T1, handled at clock time T2,
\* stores duration_minutes = (T2 - T1) seconds / 60, also across dates.
DayNumber(date) == CHOOSE i \in 1..(MaxDay + 1) : ClockDates[i] = date

ClockSeconds(date, sec) == (DayNumber(date) - 1) * SecondsPerDay + sec

SecondOfDay(time) == CHOOSE x \in 0..(SecondsPerDay - 1) :
    /\ x \div 3600 = time[1]
    /\ (x \div 60) % 60 = time[2]
    /\ x % 60 = time[3]

C6_DurationIsElapsedTime ==
    [][HandledStep("end_session") /\ OpenSessions(db, resp'.user) /= {}
        => \E s \in OpenSessions(db, resp'.user) : \E e \in db'.sessions :
            /\ e.id = s.id
            /\ e.end_time /= NULL
            /\ e.duration_minutes =
                Val(<<ClockSeconds(now.date, now.sec)
                        - ClockSeconds(s.date, SecondOfDay(s.start_time)), 60>>)]_vars

C6_Witness ==
    /\ resp.op = "end_session" /\ resp.flash = "Session ended!"
    /\ \E e \in db.sessions :
        /\ e.end_time = Val(StrfTime(now))
        /\ e.date /= now.date
        /\ e.duration_minutes /= NULL
        /\ Get(e.duration_minutes)[1] % 60 /= 0

\* C8: download_csv writes rows for exactly the caller's own workouts when the
\* caller is no admin, and for exactly all workouts, with a leading User
\* column, when the caller is an admin.
CsvRepresented == {resp.src[i] : i \in 1..Len(resp.src)}

C8_CsvScope ==
    resp.op = "download_csv" =>
        /\ Len(resp.src) = Len(resp.rows)
        /\ IF UserRow(db, resp.user).is_admin
           THEN /\ CsvRepresented = {w.id : w \in db.workouts}
                /\ Head(resp.header) = "User"
                /\ \A i \in 1..Len(resp.rows) : Len(resp.rows[i]) = Len(resp.header)
           ELSE /\ CsvRepresented = {w.id : w \in {x \in db.workouts : x.user_id = Val(resp.user)}}
                /\ \A i \in 1..Len(resp.header) : resp.header[i] /= "User"
                /\ \A i \in 1..Len(resp.rows) : Len(resp.rows[i]) = Len(resp.header)

C8_Witness ==
    /\ resp.op = "download_csv"
    /\ ~UserRow(db, resp.user).is_admin
    /\ resp.rows /= <<>>
    /\ \E w \in db.workouts : w.user_id /= Val(resp.user)

\* C9: in download_csv every workout in the caller's scope contributes
\* max(1, number of its sets) rows: one row with empty set number, reps and
\* weight cells when it has no set, else one row per set in ascending
\* set_number order.
CsvRowsOf(w) == {i \in 1..Len(resp.src) : resp.src[i] = w.id}

SetCells(i) == SubSeq(resp.rows[i], Len(resp.rows[i]) - 2, Len(resp.rows[i]))

C9_CsvRowsPerWorkout ==
    resp.op = "download_csv" =>
        \A w \in {x \in db.workouts :
                    UserRow(db, resp.user).is_admin \/ x.user_id = Val(resp.user)} :
            LET sets == {r \in db.workout_sets : r.workout_id = w.id} IN
            IF sets = {}
            THEN /\ Cardinality(CsvRowsOf(w)) = 1
                 /\ \A i \in CsvRowsOf(w) : SetCells(i) = <<EmptyCell, EmptyCell, EmptyCell>>
            ELSE /\ Cardinality(CsvRowsOf(w)) = Cardinality(sets)
                 /\ {SetCells(i) : i \in CsvRowsOf(w)}
                        = {<<Val(r.set_number), Val(r.reps), Val(r.weight_kg)>> : r \in sets}
                 /\ \A i, j \in CsvRowsOf(w) :
                        i < j => Get(SetCells(i)[1]) < Get(SetCells(j)[1])

C9_Witness ==
    /\ resp.op = "download_csv"
    /\ \E i \in 1..Len(resp.rows) : SetCells(i) = <<EmptyCell, EmptyCell, EmptyCell>>
    /\ \E i \in 1..Len(resp.rows) : SetCells(i)[1] = Val(3)

\* What the form asks for, read off the form itself: the positions up to the
\* first one that lacks a field, and whether the request must fail.
CompleteAt(form, p) ==
    p \in 1..Len(form.sets) /\ form.sets[p].reps /= NULL /\ form.sets[p].weight /= NULL

ReadPositions(form) == {p \in 1..Len(form.sets) : \A q \in 1..p : CompleteAt(form, q)}

FormFails(form) ==
    \/ form.muscle_group = NULL
    \/ form.exercise = NULL
    \/ \E p \in ReadPositions(form) :
        ~IntOk(Get(form.sets[p].reps)) \/ ~FloatOk(Get(form.sets[p].weight))

\* C4: submit is all-or-nothing.  With an open session, a request that fails
\* (the workout insert is rejected, or a reps or weight value at any position
\* cannot be parsed) leaves no workout and no workout_set row behind, and a
\* request that succeeds adds one workout together with all its sets.
C4_SubmitAllOrNothing ==
    [][HandledStep("submit") /\ OpenSessions(db, resp'.user) /= {}
        => IF FormFails(resp'.form)
           THEN /\ resp'.flash = "Error logging workout."
                /\ db'.workouts = db.workouts
                /\ db'.workout_sets = db.workout_sets
           ELSE /\ resp'.flash = "Workout logged successfully!"
                /\ \E w \in db'.workouts :
                    /\ db'.workouts = db.workouts \cup {w}
                    /\ w \notin db.workouts
                    /\ \A r \in db'.workout_sets \ db.workout_sets : r.workout_id = w.id
                    /\ {r.set_number : r \in db'.workout_sets \ db.workout_sets}
                        = {p \in ReadPositions(resp'.form) :
                                IntOf(Get(resp'.form.sets[p].reps)) > 0}]_vars

C4_Witness ==
    /\ resp.op = "submit" /\ resp.flash = "Error logging workout."
    /\ Len(resp.form.sets) >= 2
    /\ IntOk(Get(resp.form.sets[1].reps)) /\ IntOf(Get(resp.form.sets[1].reps)) > 0
    /\ FloatOk(Get(resp.form.sets[1].weight))
    /\ resp.form.sets[2].reps /= NULL /\ ~IntOk(Get(resp.form.sets[2].reps))
    /\ db.workouts = {}

\* C5: a successful submit whose form supplies reps and weight at every
\* position 1..n persists exactly the positions with reps > 0, each with
\* set_number equal to its position.
C5_SetsKeepTheirPosition ==
    /\ resp.op = "submit" /\ resp.flash = "Workout logged successfully!"
    /\ \A p \in 1..Len(resp.form.sets) : CompleteAt(resp.form, p)
    => {<<r.set_number, r.reps, r.weight_kg>> :
            r \in {x \in db.workout_sets : x.workout_id = db.seq["workouts"]}}
        = {<<p, IntOf(Get(resp.form.sets[p].reps)), FloatOf(Get(resp.form.sets[p].weight))>> :
            p \in {q \in 1..Len(resp.form.sets) : IntOf(Get(resp.form.sets[q].reps)) > 0}}

C5_Witness ==
    /\ resp.op = "submit" /\ resp.flash = "Workout logged successfully!"
    /\ Len(resp.form.sets) = 3
    /\ \A p \in 1..3 : CompleteAt(resp.form, p)
    /\ IntOf(Get(resp.form.sets[1].reps)) = 5
    /\ IntOf(Get(resp.form.sets[2].reps)) = 0
    /\ IntOf(Get(resp.form.sets[3].reps)) = 3
    /\ {r.set_number : r \in db.workout_sets} = {1, 3}

\* C10: init_db is idempotent.  On a store that already has the current
\* schema it changes no column set and no row, and for any store a second run
\* changes nothing the first run has left.
C10_InitDbIdempotent ==
    /\ db.schema = CurrentShape => init_db(db) = [raised |-> FALSE, db |-> db]
    /\ init_db(init_db(db).db) = init_db(db)

C10_Witness ==
    /\ resp.op = "boot"
    /\ db.schema = CurrentShape
    /\ \E w \in db.workouts : w.user_id /= NULL /\ w.session_id /= NULL
    /\ \E w \in db.workouts : w.user_id = NULL
    /\ db.workout_sets /= {}

\* C11: when init_db runs against a workouts table that has any of the columns
\* sets, reps or weight_kg, the workouts table afterwards has none of them (and
\* no row holds a value for them) and contains exactly one row per original
\* row, with the same id, date, time, muscle_group and exercise.
KeptCells(w) == <<w.id, w.date, w.time, w.muscle_group, w.exercise>>

C11_LegacyMigrationKeepsRows ==
    [][HandledStep("boot") /\ db.schema["workouts"] \cap LegacyColumns /= {}
        => /\ db'.schema["workouts"] \cap LegacyColumns = {}
           /\ \A w \in db'.workouts : w.sets = NULL /\ w.reps = NULL /\ w.weight_kg = NULL
           /\ Cardinality(db'.workouts) = Cardinality(db.workouts)
           /\ {KeptCells(w) : w \in db'.workouts} = {KeptCells(w) : w \in db.workouts}]_vars

C11_Witness ==
    /\ resp.op = "boot" /\ resp.flash = "migrated"
    /\ {KeptCells(w) : w \in db.workouts} = {KeptCells(w) : w \in LegacyWorkouts}
    /\ db.schema["workouts"] = WorkoutsColumns \cup {"session_id"}

\* The step is the write transaction of a request of handler op.
WriteStep(op) ==
    resp'.op = op /\ BagCardinality(inflight') < BagCardinality(inflight)

\* C12: a start_session request whose SELECT ran before another start_session
\* request of the same user committed still inserts its session: the write is
\* made without looking again, and the user then has two sessions with
\* end_time NULL.
C12_ConcurrentStartsBothInsert ==
    [][WriteStep("start_session")
        => \E s \in db'.sessions \ db.sessions :
            /\ db'.sessions = db.sessions \cup {s}
            /\ s.user_id = Val(resp'.user)
            /\ s.end_time = NULL
            /\ OpenSessions(db', resp'.user) = OpenSessions(db, resp'.user) \cup {s}]_vars

C12_Witness ==
    /\ resp.op = "start_session" /\ resp.flash = "Session started!"
    /\ Cardinality(OpenSessions(db, resp.user)) = 2

\* C13: once a session row has an end_time, its end_time and duration_minutes
\* never change again, whatever start_session, end_session and submit requests
\* follow and however the SELECT and UPDATE of two end_session requests
\* interleave.
C13_ClosedSessionNeverChanges ==
    [][\A s \in db.sessions :
        s.end_time /= NULL
            => \E e \in db'.sessions :
                /\ e.id = s.id
                /\ e.end_time = s.end_time
                /\ e.duration_minutes = s.duration_minutes]_vars

\* C14: every workout row that submit commits references a session of the same
\* user whose end_time is NULL when the workout is committed, also when an
\* end_session request of that user runs between submit's SELECT and its
\* commit.
C14_WorkoutInOpenSession ==
    [][resp'.op = "submit"
        => \A w \in db'.workouts \ db.workouts :
            \E x \in db'.sessions :
                /\ Val(x.id) = w.session_id
                /\ x.user_id = w.user_id
                /\ x.end_time = NULL]_vars

\* C17: in every state each session row has end_time NULL exactly when its
\* duration_minutes is NULL.
C17_EndTimeAndDurationTogether ==
    \A s \in db.sessions : s.end_time = NULL <=> s.duration_minutes = NULL

C17_Witness ==
    /\ resp.op = "end_session" /\ resp.flash = "Session ended!"
    /\ \E s \in db.sessions : s.end_time /= NULL /\ s.duration_minutes /= NULL
    /\ \E s \in db.sessions : s.end_time = NULL /\ s.duration_minutes = NULL

\* C15: submit reads the candidate sets up to the first position at which
\* neither set_n_reps nor set_n_weight was supplied; a position with exactly
\* one of the two fields does not end the sequence, so a later position that
\* supplies both (with reps > 0) is still persisted.
SuppliedAt(form, p) == form.sets[p].reps /= NULL \/ form.sets[p].weight /= NULL

ClaimedPositions(form) ==
    {p \in 1..Len(form.sets) : \A q \in 1..p : SuppliedAt(form, q)}

C15_StopsWhereNeitherFieldSupplied ==
    resp.op = "submit" /\ resp.flash = "Workout logged successfully!"
        => \A p \in ClaimedPositions(resp.form) :
            /\ CompleteAt(resp.form, p)
            /\ IntOk(Get(resp.form.sets[p].reps))
            /\ IntOf(Get(resp.form.sets[p].reps)) > 0
            => \E r \in db.workout_sets :
                r.workout_id = db.seq["workouts"] /\ r.set_number = p

\* C18: every workout_set row that submit persists has set_number >= 1,
\* reps > 0 and weight_kg >= 0, whatever the form holds, negative weights
\* included.
C18_PersistedSetsInRange ==
    \A r \in db.workout_sets :
        r.set_number >= 1 /\ r.reps > 0 /\ r.weight_kg[1] >= 0 /\ r.weight_kg[2] > 0

\* C16: assigning the ownerless rows to the admin account, by
\* migrate_existing_data_to_admin at startup or by create_admin, keeps the
\* one-open-session invariant: afterwards the user named admin has at most one
\* session with end_time NULL.
C16_AssignKeepsOneOpenSession ==
    [][((HandledStep("boot") \/ HandledStep("create_admin"))
            /\ (\E s \in db.sessions : s.user_id = NULL))
        => \A r \in db'.users :
            r.username = "admin" => Cardinality(OpenSessions(db', r.id)) <= 1]_vars

\* C19: start_session, end_session and submit made by user A never create,
\* change or delete a session, workout or workout_set row owned by another
\* user B; end_session by A changes only a session whose user_id is A.
RowsOfOthers(d, u) ==
    [sessions |-> {s \in d.sessions : s.user_id /= Val(u)},
     workouts |-> {w \in d.workouts : w.user_id /= Val(u)},
     workout_sets |-> {r \in d.workout_sets :
                        \E w \in d.workouts : w.id = r.workout_id /\ w.user_id /= Val(u)}]

C19_OtherUsersRowsUntouched ==
    [][HandledStep("start_session") \/ HandledStep("end_session") \/ HandledStep("submit")
        => /\ RowsOfOthers(db', resp'.user) = RowsOfOthers(db, resp'.user)
           /\ \A s \in db.sessions \ db'.sessions : s.user_id = Val(resp'.user)]_vars

C19_Witness ==
    /\ resp.op = "end_session" /\ resp.flash = "Session ended!"
    /\ \E s \in db.sessions : s.user_id = Val(resp.user) /\ s.end_time /= NULL
    /\ \E s \in db.sessions : s.user_id /= Val(resp.user) /\ s.end_time = NULL
    /\ \E w \in db.workouts : w.user_id /= Val(resp.user)
    /\ db.workout_sets /= {}

====
